---- MODULE Spec2Model ----
(***************************************************************************)
(* Model of ik_teleop/teleop_utils/hand_detector.py: the MediapipeJoints   *)
(* stream loop (construction, detect, transform_coords, the moving-average *)
(* queue, publish_coords, finish_recording) and its message-bus subclass   *)
(* MediapipeJointPublisher.                                                *)
(*                                                                         *)
(* Numbers.  numpy float64 values are modelled as exact fractions <<n, d>> *)
(* with d >= 0 in lowest terms.  d = 0 holds the IEEE special values:      *)
(* <<0, 0>> is NaN, <<1, 0>> is +inf and <<-1, 0>> is -inf, so that 0/0    *)
(* is NaN and NaN is absorbing, as in numpy (which warns, and does not     *)
(* raise, on a division by zero).  Rounding is not modelled.               *)
(***************************************************************************)
EXTENDS Integers, Sequences, FiniteSets

\* ------------------------------------------------------------ float values

Abs(x) == IF x < 0 THEN -x ELSE x

Sign(x) == IF x < 0 THEN -1 ELSE IF x > 0 THEN 1 ELSE 0

RECURSIVE GCD(_, _)
GCD(a, b) == IF b = 0 THEN a ELSE GCD(b, a % b)

\* The float with numerator n and denominator d >= 0, in lowest terms.
Float(n, d) ==
    IF d = 0 THEN <<Sign(n), 0>>
    ELSE LET g == GCD(Abs(n), d)
         IN  <<Sign(n) * (Abs(n) \div g), d \div g>>

NaN == <<0, 0>>

Zero == <<0, 1>>

One == <<1, 1>>

FromInt(i) == <<i, 1>>

IsFinite(x) == x[2] > 0

FNeg(x) == <<-x[1], x[2]>>

FAdd(x, y) ==
    IF x[2] = 0 /\ y[2] = 0
    THEN (IF x = y THEN x ELSE NaN)
    ELSE Float(x[1] * y[2] + y[1] * x[2], x[2] * y[2])

FSub(x, y) == FAdd(x, FNeg(y))

FMul(x, y) == Float(x[1] * y[1], x[2] * y[2])

FDiv(x, y) ==
    LET s == IF y[1] < 0 THEN -1 ELSE 1
    IN  Float(s * x[1] * y[2], x[2] * Abs(y[1]))

\* The exact integer square root; the joint sets of the model are chosen so
\* that every norm taken is a whole number.
ISqrt(n) == CHOOSE r \in 0..n : r * r = n

FSqrt(x) ==
    IF x[2] = 0 THEN (IF x[1] < 0 THEN NaN ELSE x)
    ELSE <<ISqrt(x[1]), ISqrt(x[2])>>

\* ------------------------------------------------------- vectors, matrices

Vec3(p) == <<FromInt(p[1]), FromInt(p[2]), Zero>>

VSub(u, v) == [k \in 1..3 |-> FSub(u[k], v[k])]

VDiv(u, s) == [k \in 1..3 |-> FDiv(u[k], s)]

VScale(u, s) == [k \in 1..3 |-> FMul(u[k], s)]

Dot(u, v) == FAdd(FAdd(FMul(u[1], v[1]), FMul(u[2], v[2])), FMul(u[3], v[3]))

\* np.linalg.norm of a 3-vector
Norm(u) == FSqrt(Dot(u, u))

\* np.cross
Cross(u, v) ==
    << FSub(FMul(u[2], v[3]), FMul(u[3], v[2])),
       FSub(FMul(u[3], v[1]), FMul(u[1], v[3])),
       FSub(FMul(u[1], v[2]), FMul(u[2], v[1])) >>

Transpose(m) == [i \in 1..3 |-> [j \in 1..3 |-> m[j][i]]]

MatVec(m, v) == [i \in 1..3 |-> Dot(m[i], v)]

Det(m) ==
    FAdd(FSub(FMul(m[1][1], FSub(FMul(m[2][2], m[3][3]), FMul(m[2][3], m[3][2]))),
              FMul(m[1][2], FSub(FMul(m[2][1], m[3][3]), FMul(m[2][3], m[3][1])))),
         FMul(m[1][3], FSub(FMul(m[2][1], m[3][2]), FMul(m[2][2], m[3][1]))))

\* Rows and columns 1..3 without k, in cyclic order, so that the cofactor
\* needs no sign.
Nxt(k) == (k % 3) + 1

Cofactor(m, i, j) ==
    FSub(FMul(m[Nxt(i)][Nxt(j)], m[Nxt(Nxt(i))][Nxt(Nxt(j))]),
         FMul(m[Nxt(i)][Nxt(Nxt(j))], m[Nxt(Nxt(i))][Nxt(j)]))

Inverse(m) == [i \in 1..3 |-> [j \in 1..3 |-> FDiv(Cofactor(m, j, i), Det(m))]]

HasNaN(m) == \E i \in 1..3 : \E j \in 1..3 : ~IsFinite(m[i][j])

NaNMatrix == [i \in 1..3 |-> [j \in 1..3 |-> NaN]]

\* ------------------------------------------------------------ program data

POSE_COORD_TOPIC == "/mediapipe_joint_coords"

MOVING_AVERAGE_LIMIT == 10

\* Camera reads the model follows.
MaxCycles == 3

\* What joint_handlers.get_joint_positions hands to transform_coords: the six
\* anchors and the five fingertips, in the order of the fingertip mapping.
JointSet(w, t, i, m, r, p, tips) ==
    [wrist_position |-> w, thumb_knuckle_position |-> t,
     index_knuckle_position |-> i, middle_knuckle_position |-> m,
     ring_knuckle_position |-> r, pinky_knuckle_position |-> p,
     finger_tip_coords |-> tips]

\* An upright hand at the origin; wrist to middle knuckle is (0, 2).
UprightHand ==
    JointSet(<<0, 0>>, <<2, 0>>, <<0, 1>>, <<0, 2>>, <<-1, 1>>, <<-2, 1>>,
             << <<-2, 4>>, <<-1, 4>>, <<0, 4>>, <<1, 4>>, <<2, 4>> >>)

\* A rotated hand away from the origin; wrist to middle knuckle is (3, 4).
TiltedHand ==
    JointSet(<<1, 2>>, <<5, 1>>, <<3, 5>>, <<4, 6>>, <<2, 6>>, <<0, 6>>,
             << <<6, 8>>, <<5, 9>>, <<4, 10>>, <<2, 11>>, <<0, 10>> >>)

\* A hand whose middle knuckle is detected on the wrist.
CollapsedHand ==
    JointSet(<<3, 3>>, <<5, 1>>, <<3, 5>>, <<3, 3>>, <<2, 6>>, <<0, 6>>,
             << <<6, 8>>, <<5, 9>>, <<4, 10>>, <<2, 11>>, <<0, 10>> >>)

JointSets == {UprightHand, TiltedHand, CollapsedHand}

\* ------------------------------------------------------- transform_coords

\* np.vstack of the anchors and the fingertips, with the zero z column.
joint_coords(js) ==
    LET rows == << js.wrist_position, js.thumb_knuckle_position,
                   js.index_knuckle_position, js.middle_knuckle_position,
                   js.ring_knuckle_position, js.pinky_knuckle_position >>
                \o js.finger_tip_coords
    IN  [k \in 1..Len(rows) |-> Vec3(rows[k])]

translated_joint_coords(js) ==
    LET jc == joint_coords(js)
    IN  [k \in 1..Len(jc) |-> VSub(jc[k], jc[1])]

\* [cross_product, direction_vector, normal_vector]; row 3 of the python
\* array is element 4 here.
original_coord_frame(js, normalize) ==
    LET t == translated_joint_coords(js)
        n == Norm(t[4])
    IN  IF normalize
        THEN LET direction_vector == t[4]
                 normal_vector == <<Zero, Zero, n>>
                 cross_product ==
                     VScale(Cross(VDiv(direction_vector, n), VDiv(normal_vector, n)), n)
             IN  <<cross_product, direction_vector, normal_vector>>
        ELSE LET direction_vector == VDiv(t[4], n)
                 normal_vector == <<Zero, Zero, One>>
                 cross_product == Cross(direction_vector, normal_vector)
             IN  <<cross_product, direction_vector, normal_vector>>

\* np.linalg.solve(a, np.eye(3)): the outcomes of the call.  An exactly
\* singular matrix raises LinAlgError.  On a matrix holding NaN the LAPACK
\* factorisation either carries the NaN into every entry of the solution or
\* reports a zero pivot, which numpy raises: which one depends on the build.
solve(a) ==
    IF HasNaN(a)
    THEN {[raised |-> TRUE, x |-> NaNMatrix], [raised |-> FALSE, x |-> NaNMatrix]}
    ELSE IF Det(a) = Zero
         THEN {[raised |-> TRUE, x |-> NaNMatrix]}
         ELSE {[raised |-> FALSE, x |-> Inverse(a)]}

\* The mirror step negating the y column instead
MirrorY(pts, mirror_points) ==
    IF mirror_points
    THEN [k \in 1..Len(pts) |-> <<pts[k][1], FNeg(pts[k][2]), pts[k][3]>>]
    ELSE pts

\* The mirror step: the x column negated in place.
Mirror(pts, mirror_points) ==
    IF mirror_points
    THEN [k \in 1..Len(pts) |-> <<FNeg(pts[k][1]), pts[k][2], pts[k][3]>>]
    ELSE pts

\* The outcomes of transform_coords: raised, or the 11 x 2 array returned.
transform_coords(js, normalize, mirror_points) ==
    LET t == translated_joint_coords(js)
    IN  { IF s.raised
          THEN [raised |-> TRUE, coords |-> <<>>]
          ELSE LET rotation_matrix == Transpose(s.x)
                   transformed_hand_coords ==
                       Mirror([k \in 1..Len(t) |-> MatVec(rotation_matrix, t[k])],
                              mirror_points)
               IN  [raised |-> FALSE,
                    coords |-> [k \in 1..Len(t) |->
                                   <<transformed_hand_coords[k][1],
                                     transformed_hand_coords[k][2]>>]]
          : s \in solve(original_coord_frame(js, normalize)) }

\* ------------------------------------------------------------------ state

VARIABLES
    cls,                  \* the class being instantiated
    moving_average,       \* self.moving_average
    normalize,            \* self.normalize
    record_demo,          \* self.record_demo
    pc,                   \* where the thread of the object is
    pipeline_started,     \* self.pipeline.start(config) done and not undone
    moving_average_queue, \* self.moving_average_queue (<<>> also when absent)
    queue,                \* self.queue
    unmrkd_images,        \* self.unmrkd_images
    images,               \* self.images
    image,                \* detect: image (0 is None)
    joints,               \* detect: what get_joint_positions returned
    transformed_coords,   \* detect: transformed_coords
    cycle,                \* camera reads so far
    vid_file,             \* frames written to demo.mp4
    unmrkd_file,          \* frames written to orig.mp4
    returned,             \* history: every array transform_coords returned
    handed,               \* history: every argument of publish_coords
    bus                   \* history: every message published on the topic

vars == <<cls, moving_average, normalize, record_demo, pc, pipeline_started,
          moving_average_queue, queue, unmrkd_images, images, image, joints,
          transformed_coords, cycle, vid_file, unmrkd_file, returned, handed,
          bus>>

config == <<cls, moving_average, normalize, record_demo>>

files == <<vid_file, unmrkd_file>>

None == [none |-> TRUE, items |-> <<>>]

Classes == {"MediapipeJoints", "MediapipeJointPublisher"}

\* The positions inside the while loop of detect.
InLoop == {"acquire", "estimate", "transform", "smooth"}

\* No MediapipeJointPublisher takes a record_demo argument.
Init ==
    /\ cls \in Classes
    /\ moving_average \in BOOLEAN
    /\ normalize \in BOOLEAN
    /\ record_demo \in (IF cls = "MediapipeJoints" THEN BOOLEAN ELSE {FALSE})
    /\ pc = "new"
    /\ pipeline_started = FALSE
    /\ moving_average_queue = <<>>
    /\ queue = None
    /\ unmrkd_images = <<>>
    /\ images = <<>>
    /\ image = 0
    /\ joints = UprightHand
    /\ transformed_coords = <<>>
    /\ cycle = 0
    /\ vid_file = <<>>
    /\ unmrkd_file = <<>>
    /\ returned = <<>>
    /\ handed = <<>>
    /\ bus = <<>>

\* ------------------------------------------------------------- operations

\* MediapipeJoints.__init__
Construct ==
    /\ pc = "new"
    /\ cls = "MediapipeJoints"
    /\ pipeline_started' = TRUE
    /\ moving_average_queue' = <<>>
    /\ queue' = None
    /\ unmrkd_images' = <<>>
    /\ images' = <<>>
    /\ pc' = "constructed"
    /\ UNCHANGED <<config, image, joints, transformed_coords, cycle, files,
                   returned, handed, bus>>

\* MediapipeJointPublisher.__init__: its first statement looks up
\* super().__init, a name the parent does not have, and raises AttributeError
\* before the pipeline or the publisher is made.
ConstructPublisher ==
    /\ pc = "new"
    /\ cls = "MediapipeJointPublisher"
    /\ pc' = "ctor_raised"
    /\ UNCHANGED <<config, pipeline_started, moving_average_queue, queue,
                   unmrkd_images, images, image, joints, transformed_coords,
                   cycle, files, returned, handed, bus>>

\* The owner of the object gives it a queue (self.queue is None until then).
AttachQueue ==
    /\ pc = "constructed"
    /\ queue = None
    /\ queue' = [none |-> FALSE, items |-> <<>>]
    /\ UNCHANGED <<config, pc, pipeline_started, moving_average_queue,
                   unmrkd_images, images, image, joints, transformed_coords,
                   cycle, files, returned, handed, bus>>

\* detect is called and enters its loop.
StartDetect ==
    /\ pc = "constructed"
    /\ pc' = "acquire"
    /\ UNCHANGED <<config, pipeline_started, moving_average_queue, queue,
                   unmrkd_images, images, image, joints, transformed_coords,
                   cycle, files, returned, handed, bus>>

\* camera.getting_image_data returned None: the loop continues.
NoImage ==
    /\ pc = "acquire"
    /\ cycle < MaxCycles
    /\ cycle' = cycle + 1
    /\ image' = 0
    /\ UNCHANGED <<config, pc, pipeline_started, moving_average_queue, queue,
                   unmrkd_images, images, joints, transformed_coords,
                   files, returned, handed, bus>>

\* camera.getting_image_data returned an image (named by its cycle).
GetImage ==
    /\ pc = "acquire"
    /\ cycle < MaxCycles
    /\ cycle' = cycle + 1
    /\ image' = cycle + 1
    /\ pc' = "estimate"
    /\ UNCHANGED <<config, pipeline_started, moving_average_queue, queue,
                   unmrkd_images, images, joints, transformed_coords,
                   files, returned, handed, bus>>

\* hand.process found no hand: nothing more is done with the image.
NoHand ==
    /\ pc = "estimate"
    /\ pc' = "acquire"
    /\ UNCHANGED <<config, pipeline_started, moving_average_queue, queue,
                   unmrkd_images, images, image, joints, transformed_coords,
                   cycle, files, returned, handed, bus>>

\* hand.process found a hand: the image is kept when recording and the
\* joints are read off the landmarks.
HandFound ==
    /\ pc = "estimate"
    /\ \E js \in JointSets : joints' = js
    /\ unmrkd_images' = IF record_demo THEN Append(unmrkd_images, image)
                        ELSE unmrkd_images
    /\ pc' = "transform"
    /\ UNCHANGED <<config, pipeline_started, moving_average_queue, queue, images,
                   image, transformed_coords, cycle, files, returned,
                   handed, bus>>

\* transformed_coords = self.transform_coords(...), mirror_points defaulted.
\* Nothing in detect catches what the call raises.
Transform ==
    /\ pc = "transform"
    /\ \E o \in transform_coords(joints, normalize, TRUE) :
          IF o.raised
          THEN /\ pc' = "raised"
               /\ UNCHANGED <<transformed_coords, returned>>
          ELSE /\ pc' = "smooth"
               /\ transformed_coords' = o.coords
               /\ returned' = Append(returned, o.coords)
    /\ UNCHANGED <<config, pipeline_started, moving_average_queue, queue,
                   unmrkd_images, images, image, joints, cycle, files,
                   handed, bus>>

\* ----------------------------------------------- smoothing and publishing

\* append, then pop(0) when the queue is longer than the limit
Push(q, frame) ==
    LET a == Append(q, frame)
    IN  IF Len(a) > MOVING_AVERAGE_LIMIT THEN Tail(a) ELSE a

RECURSIVE SumAt(_, _, _)
SumAt(q, k, c) ==
    IF q = <<>> THEN Zero ELSE FAdd(Head(q)[k][c], SumAt(Tail(q), k, c))

\* np.mean(q, axis = 0) of a non-empty list of 11 x 2 arrays
Mean(q) ==
    [k \in 1..Len(q[1]) |->
        <<FDiv(SumAt(q, k, 1), FromInt(Len(q))), FDiv(SumAt(q, k, 2), FromInt(Len(q)))>>]

\* detect always pushes, whatever moving_average says
PushAlways(ma, q, frame) == Push(q, frame)

\* self.moving_average_queue after the smoothing step of detect
NextQueue(ma, q, frame) == IF ma THEN Push(q, frame) ELSE q

\* what detect passes to publish_coords
PublishedValue(ma, q, frame) == IF ma THEN Mean(Push(q, frame)) ELSE frame

\* queue.put done twice for one call
PutTwice(q, coords) ==
    IF ~q.none THEN [q EXCEPT !.items = Append(Append(@, coords), coords)] ELSE q

\* MediapipeJoints.publish_coords: self.queue after the call
publish_coords(q, coords) ==
    IF ~q.none THEN [q EXCEPT !.items = Append(@, coords)] ELSE q

RECURSIVE Flatten(_)
\* the data list MediapipeJointPublisher.publish_coords builds
Flatten(coords) ==
    IF coords = <<>> THEN <<>>
    ELSE <<Head(coords)[1], Head(coords)[2]>> \o Flatten(Tail(coords))

\* The smoothing step of detect and the publish_coords call that ends the
\* cycle.
Publish ==
    /\ pc = "smooth"
    /\ moving_average_queue' =
           NextQueue(moving_average, moving_average_queue, transformed_coords)
    /\ LET coords ==
               PublishedValue(moving_average, moving_average_queue, transformed_coords)
       IN  /\ handed' = Append(handed, coords)
           /\ IF cls = "MediapipeJoints"
              THEN /\ queue' = publish_coords(queue, coords)
                   /\ bus' = bus
              ELSE /\ bus' = Append(bus, [topic |-> POSE_COORD_TOPIC,
                                          data |-> Flatten(coords)])
                   /\ queue' = queue
    /\ pc' = "acquire"
    /\ UNCHANGED <<config, pipeline_started, unmrkd_images, images, image, joints,
                   transformed_coords, cycle, files, returned>>

\* A stop signal reaches the process while detect runs.  No handler is
\* installed (the registration is commented out), so the loop is left where
\* it stands.
Interrupt ==
    /\ pc \in InLoop
    /\ pc' = "interrupted"
    /\ UNCHANGED <<config, pipeline_started, moving_average_queue, queue,
                   unmrkd_images, images, image, joints, transformed_coords,
                   cycle, files, returned, handed, bus>>

\* finish_recording, called by the owner of the object once detect has been
\* left.  vid_writer.release is named and not called.
finish_recording ==
    /\ pc \in {"raised", "interrupted"}
    /\ IF record_demo
       THEN /\ vid_file' = images
            /\ unmrkd_file' = unmrkd_images
            /\ pc' = "exit0"
       ELSE UNCHANGED <<pc, files>>
    /\ UNCHANGED <<config, pipeline_started, moving_average_queue, queue,
                   unmrkd_images, images, image, joints, transformed_coords,
                   cycle, returned, handed, bus>>

Next ==
    \/ Construct
    \/ ConstructPublisher
    \/ AttachQueue
    \/ StartDetect
    \/ NoImage
    \/ GetImage
    \/ NoHand
    \/ HandFound
    \/ Transform
    \/ Publish
    \/ Interrupt
    \/ finish_recording

Spec == Init /\ [][Next]_vars

\* ----------------------------------------------------------------- claims

Min(a, b) == IF a < b THEN a ELSE b

Last(q) == q[Len(q)]

\* An array with no NaN and no infinity in it.
AllFinite(coords) ==
    \A k \in 1..Len(coords) : IsFinite(coords[k][1]) /\ IsFinite(coords[k][2])

\* A joint set whose translated row 3 has zero norm.
Degenerate(js) == js.middle_knuckle_position = js.wrist_position

\* The outputs of the frames whose transform succeeded, in arrival order.
Succeeded == SelectSeq(returned, AllFinite)

Stopped == {"raised", "interrupted", "exit0"}

\* C1: whenever the loop is back at the head, publish_coords has been called
\* once for each cycle whose transform succeeded, and for no other cycle.
C1_OnePublishPerSuccess ==
    pc = "acquire" => Len(handed) = Len(Succeeded)

\* C2: a frame whose wrist is on its middle knuckle is never published: no
\* array handed to publish_coords holds a NaN.
C2_NoNaNPublished ==
    \A i \in 1..Len(handed) : AllFinite(handed[i])

\* C3: a transform failure neither ends the loop nor lets the frame through to
\* smoothing and publishing: the frame is skipped.
C3_FailureSkipsFrame ==
    /\ pc # "raised"
    /\ ~(pc = "smooth" /\ Degenerate(joints))

\* C4: with moving_average on, once the k-th successful frame has been
\* processed the queue holds the last min(k, 10) successful frames and the
\* value published for it is their mean.
C4_WindowOfSuccesses ==
    (moving_average /\ pc = "acquire" /\ returned # <<>> /\ AllFinite(Last(returned)))
        => LET k == Len(Succeeded)
               w == SubSeq(Succeeded, k - Min(k, MOVING_AVERAGE_LIMIT) + 1, k)
           IN  /\ moving_average_queue = w
               /\ Last(handed) = Mean(w)

\* C5: once the loop has been left by a stop signal or an error, or the
\* process has exited, the camera pipeline is released and, when recording,
\* the buffered frames are in the video file.
C5_ReleasedAndFlushed ==
    pc \in Stopped =>
        /\ ~pipeline_started
        /\ record_demo => unmrkd_file = unmrkd_images

\* C6: building the message-bus variant gives a running loop, and every array
\* it hands to publish_coords is on the topic as its 22 numbers, X then Y per
\* point, in the order of the transform.
C6_BusCarriesEveryFrame ==
    (cls = "MediapipeJointPublisher" /\ pc # "new") =>
        /\ pc # "ctor_raised"
        /\ bus = [i \in 1..Len(handed) |->
                     [topic |-> POSE_COORD_TOPIC, data |-> Flatten(handed[i])]]

\* C7 as stated: in the in-process variant everything handed to
\* publish_coords is in the queue, once, in order.
C7_EverythingEnqueued ==
    cls = "MediapipeJoints" => queue.items = handed

\* C7 as amended: a call of publish_coords made while self.queue is a queue
\* appends its argument to the queue, once; a call made while self.queue is
\* None leaves it None; nothing else puts anything in the queue.
C7_EnqueuedWhenAttached ==
    [][ /\ (handed' # handed /\ ~queue.none) =>
              queue' = [queue EXCEPT !.items = Append(@, Last(handed'))]
        /\ (handed' # handed /\ queue.none) => queue' = None
        /\ handed' = handed => queue'.items = queue.items ]_vars

\* Two different frames went through a queue and sit in it in order.
C7_Witness ==
    /\ ~queue.none
    /\ Len(handed) = 2
    /\ handed[1] # handed[2]
    /\ queue.items = handed

\* C8: with moving_average off no smoothing queue is touched and the values
\* handed to publish_coords are the outputs of transform_coords themselves,
\* one for one (all of them once the cycle is over).
C8_Bypass ==
    ~moving_average =>
        /\ moving_average_queue = <<>>
        /\ Len(handed) <= Len(returned)
        /\ handed = SubSeq(returned, 1, Len(handed))
        /\ pc = "acquire" => handed = returned

\* Two different frames were published with moving_average off.
C8_Witness ==
    /\ ~moving_average
    /\ pc = "acquire"
    /\ Len(handed) = 2
    /\ handed[1] # handed[2]

\* C9: for a joint set that is not degenerate, the output with mirror_points
\* is 11 x 2 and is the output without it with the X column negated and the
\* Y column kept.
C9_MirrorNegatesX ==
    (pc = "smooth" /\ ~Degenerate(joints)) =>
        \A o \in transform_coords(joints, normalize, FALSE) :
            /\ ~o.raised
            /\ Len(transformed_coords) = 11
            /\ Len(o.coords) = 11
            /\ \A k \in 1..11 : Len(transformed_coords[k]) = 2
            /\ \A k \in 1..Len(transformed_coords) :
                  /\ transformed_coords[k][1] = FNeg(o.coords[k][1])
                  /\ transformed_coords[k][2] = o.coords[k][2]

\* A tilted hand was transformed, with points off the Y axis.
C9_Witness ==
    /\ pc = "smooth"
    /\ joints = TiltedHand
    /\ Len(transformed_coords) = 11
    /\ \E k \in 1..11 : transformed_coords[k][1] \notin {Zero, NaN}

\* C10: the smoothing queue only ever holds successfully transformed frames:
\* a cycle that fails leaves it as it was.
C10_QueueHoldsSuccessesOnly ==
    \A i \in 1..Len(moving_average_queue) : AllFinite(moving_average_queue[i])

====
